---- MODULE Spec2Model ----
(***************************************************************************)
(* Model of the stashpoint availability filter (app/utils/filter.py) and   *)
(* of the /availability route that drives it (app/routes/stashpoints.py).  *)
(*                                                                         *)
(* Time is discrete: an absolute timestamp is a natural number, a day has  *)
(* DayLen ticks and datetime.time() is the timestamp modulo DayLen.        *)
(* The geospatial index maps an id to its distance from the search point   *)
(* (what GEOSEARCH ... WITHDIST computes for the request's lat/lng).       *)
(***************************************************************************)
EXTENDS Integers, Sequences, FiniteSets, TLC

\* ---------------------------------------------------------------- bounds
NumIds == 1
DayLen == 2
NumDays == 2
MaxCap == 2
MaxBag == 2
MaxBookings == 2
MaxDist == 2
MaxRadius == 1

Ids == 1..NumIds
Times == 0..(DayLen * NumDays - 1)
TimesOfDay == 0..(DayLen - 1)

\* ------------------------------------------------------- data model
\* Stashpoint rows of the catalog (the columns the filter reads).
StashpointRows == [capacity : 0..MaxCap, open_from : TimesOfDay, open_until : TimesOfDay]

\* Booking rows of the ledger; a booking has dropoff_time < pickup_time.
BookingRows ==
  {b \in [stashpoint_id : Ids, bag_count : 1..MaxBag, dropoff_time : Times,
          pickup_time : Times, is_cancelled : BOOLEAN] :
     b.dropoff_time < b.pickup_time}

\* Requests that passed validate_params.
Requests ==
  {r \in [radius_km : 1..MaxRadius, dropoff_dt : Times, pickup_dt : Times,
          bag_count : 1..MaxBag] : r.pickup_dt > r.dropoff_dt}

\* A partial function from S to T (a Python dict, a table keyed by id).
Dicts(S, T) == UNION {[D -> T] : D \in SUBSET S}

EmptyDict == [x \in {} |-> 0]

VARIABLES
  redis,        \* key "stashpoints": id -> distance from the search point
  catalog,      \* Stashpoint table: id -> row
  ledger,       \* Booking table: sequence of rows
  request,      \* the validated parameters of the request being served
  pc,           \* position of the request in StashpointFilter.run / the route
  filtered_stashpoint_ids,
  filtered_stashpoints,
  nearby_stashpoint_distance_mapping,
  stashpoint_capacity_mapping,
  stashpoint_used_capacity_mapping,
  stashpoint_available_capacity_mapping,
  stage_ids,    \* filtered_stashpoint_ids as left by each completed stage
  exc,          \* the collaborator whose call raised, "none" if none did
  response,     \* what the route returned
  sync,         \* the runs of sync_stashpoints_to_redis: run -> its position and locals
  old_index,    \* key "stashpoints" as it was before any run of the sync job
  args,         \* request.args of the request the route received
  validation    \* the pair validate_params returned

vars == <<redis, catalog, ledger, request, pc, filtered_stashpoint_ids,
          filtered_stashpoints, nearby_stashpoint_distance_mapping,
          stashpoint_capacity_mapping, stashpoint_used_capacity_mapping,
          stashpoint_available_capacity_mapping, stage_ids, exc, response,
          sync, old_index, args, validation>>

world == <<redis, catalog, ledger, request, sync, old_index, args, validation>>

\* ------------------------------------------------------- pure helpers
\* datetime.time(): the time of day of an absolute timestamp.
TimeOf(dt) == dt % DayLen

\* GEOSEARCH key FROMLONLAT lng lat BYRADIUS r km WITHDIST
geosearch(geo, radius_km) ==
  [id \in {i \in DOMAIN geo : geo[i] <= radius_km} |-> geo[id]]

\* OpenFilter that treats open_from > open_until as a window over midnight.
OpenFilterWrapAware(row, dropoff_dt, pickup_dt) ==
  IF row.open_from <= row.open_until
  THEN /\ row.open_from <= TimeOf(dropoff_dt)
       /\ row.open_until >= TimeOf(pickup_dt)
  ELSE /\ (row.open_from <= TimeOf(dropoff_dt) \/ TimeOf(dropoff_dt) <= row.open_until)
       /\ (row.open_from <= TimeOf(pickup_dt) \/ TimeOf(pickup_dt) <= row.open_until)

\* OpenFilter with the boundaries excluded.
OpenFilterStrict(row, dropoff_dt, pickup_dt) ==
  /\ row.open_from < TimeOf(dropoff_dt)
  /\ row.open_until > TimeOf(pickup_dt)

\* WHERE clause of the catalog query in filter_by_opening_time.
OpenFilter(row, dropoff_dt, pickup_dt) ==
  /\ row.open_from <= TimeOf(dropoff_dt)
  /\ row.open_until >= TimeOf(pickup_dt)

\* Overlaps with the second clause closed at the pickup.
OverlapsClosedAtPickup(b, dropoff_dt, pickup_dt) ==
  \/ (b.dropoff_time <= dropoff_dt /\ b.pickup_time > dropoff_dt)
  \/ (b.dropoff_time <= pickup_dt /\ b.pickup_time >= pickup_dt)
  \/ (b.dropoff_time >= dropoff_dt /\ b.pickup_time <= pickup_dt)

\* Overlaps without its third clause: nested bookings are missed.
OverlapsNoNested(b, dropoff_dt, pickup_dt) ==
  \/ (b.dropoff_time <= dropoff_dt /\ b.pickup_time > dropoff_dt)
  \/ (b.dropoff_time < pickup_dt /\ b.pickup_time >= pickup_dt)

\* Overlaps with the first clause closed at the dropoff.
OverlapsClosedAtDropoff(b, dropoff_dt, pickup_dt) ==
  \/ (b.dropoff_time <= dropoff_dt /\ b.pickup_time >= dropoff_dt)
  \/ (b.dropoff_time < pickup_dt /\ b.pickup_time >= pickup_dt)
  \/ (b.dropoff_time >= dropoff_dt /\ b.pickup_time <= pickup_dt)

\* The three-clause overlap condition of the ledger query.
Overlaps(b, dropoff_dt, pickup_dt) ==
  \/ (b.dropoff_time <= dropoff_dt /\ b.pickup_time > dropoff_dt)
  \/ (b.dropoff_time < pickup_dt /\ b.pickup_time >= pickup_dt)
  \/ (b.dropoff_time >= dropoff_dt /\ b.pickup_time <= pickup_dt)

\* BookingFilter without the is_cancelled condition.
BookingFilterCountsCancelled(b, ids, dropoff_dt, pickup_dt) ==
  /\ b.stashpoint_id \in ids
  /\ Overlaps(b, dropoff_dt, pickup_dt)

\* BookingFilter without the restriction to the candidate ids.
BookingFilterAnyStashpoint(b, ids, dropoff_dt, pickup_dt) ==
  /\ b.is_cancelled = FALSE
  /\ Overlaps(b, dropoff_dt, pickup_dt)

\* WHERE clause of the ledger query in get_stashpoint_used_capacity_mapping.
BookingFilter(b, ids, dropoff_dt, pickup_dt) ==
  /\ b.stashpoint_id \in ids
  /\ b.is_cancelled = FALSE
  /\ Overlaps(b, dropoff_dt, pickup_dt)

\* Indexes of the ledger rows the query selects.
SelectedRows(led, ids, dropoff_dt, pickup_dt) ==
  {i \in DOMAIN led : BookingFilter(led[i], ids, dropoff_dt, pickup_dt)}

RECURSIVE SumBags(_, _)
\* func.sum(Booking.bag_count) over a set of row indexes.
SumBags(led, rows) ==
  IF rows = {} THEN 0
  ELSE LET i == CHOOSE x \in rows : TRUE
       IN led[i].bag_count + SumBags(led, rows \ {i})

\* UsedCapacityQuery grouping the bookings of every stashpoint, candidate or not.
UsedCapacityQueryAllGroups(led, ids, dropoff_dt, pickup_dt) ==
  LET sel == {i \in DOMAIN led :
                led[i].is_cancelled = FALSE
                /\ (led[i].dropoff_time < pickup_dt /\ led[i].pickup_time > dropoff_dt)}
      groups == {led[i].stashpoint_id : i \in sel}
  IN [id \in groups |->
        led[CHOOSE i \in sel : led[i].stashpoint_id = id].bag_count]

\* GROUP BY stashpoint_id: one result row per id that has a selected booking.
UsedCapacityQuery(led, ids, dropoff_dt, pickup_dt) ==
  LET sel == SelectedRows(led, ids, dropoff_dt, pickup_dt)
      groups == {led[i].stashpoint_id : i \in sel}
  IN [id \in groups |-> SumBags(led, {i \in sel : led[i].stashpoint_id = id})]

\* AvailableCapacity keeping only ids with available > bag_count.
AvailableCapacityStrict(capacity, used, bag_count) ==
  LET avail(id) == capacity[id] - (IF id \in DOMAIN used THEN used[id] ELSE 0)
  IN [id \in {i \in DOMAIN capacity : avail(i) > bag_count} |-> avail(id)]

\* AvailableCapacity iterating over the keys of the used-capacity mapping.
AvailableCapacityUsedKeys(capacity, used, bag_count) ==
  LET avail(id) == capacity[id] - used[id]
  IN [id \in {i \in DOMAIN used \cap DOMAIN capacity : avail(i) >= bag_count}
        |-> avail(id)]

\* The dict comprehension of calculate_available_capacity.
AvailableCapacity(capacity, used, bag_count) ==
  LET avail(id) == capacity[id] - (IF id \in DOMAIN used THEN used[id] ELSE 0)
  IN [id \in {i \in DOMAIN capacity : avail(i) >= bag_count} |-> avail(id)]

\* All orders in which a query can return the rows of a set of ids.
Orders(S) ==
  {s \in [1..Cardinality(S) -> S] : \A i, j \in DOMAIN s : i # j => s[i] # s[j]}

\* CatalogQuery without the restriction to the candidate ids.
CatalogQueryAnyId(cat, ids, dropoff_dt, pickup_dt) ==
  {id \in DOMAIN cat :
     cat[id].open_from <= dropoff_dt % DayLen /\ cat[id].open_until >= pickup_dt % DayLen}

\* Stashpoint.query.filter(Stashpoint.id.in_(ids)).filter(open_from <= ..,
\* open_until >= ..): the ids of the rows the catalog query returns.
CatalogQuery(cat, ids, dropoff_dt, pickup_dt) ==
  {id \in DOMAIN cat : id \in ids /\ OpenFilter(cat[id], dropoff_dt, pickup_dt)}

\* The list as the filter left it, not sorted.
SortedByDistanceNotSorted(sps, dist) == sps

\* sorted(stashpoints, key=lambda sp: distance_mapping[sp.id]): a stable sort,
\* computed by insertion from the left.
RECURSIVE SortedByDistance(_, _)
SortedByDistance(sps, dist) ==
  IF sps = <<>> THEN <<>>
  ELSE LET n == Len(sps)
           x == sps[n]
           front == SortedByDistance(SubSeq(sps, 1, n - 1), dist)
           k == Cardinality({i \in DOMAIN front : dist[front[i].id] <= dist[x.id]})
       IN SubSeq(front, 1, k) \o <<x>> \o SubSeq(front, k + 1, Len(front))

\* Distances are counted in units of which RoundUnit make one tenth of a
\* kilometre.
RoundUnit == 2

\* round(distance, 1), in tenths of a kilometre; a tie goes to the even tenth.
round(distance) ==
  LET q == distance \div RoundUnit
      r == distance % RoundUnit
  IN IF 2 * r < RoundUnit THEN q
     ELSE IF 2 * r > RoundUnit THEN q + 1
     ELSE IF q % 2 = 0 THEN q ELSE q + 1

\* One entry of the JSON list the route returns.
Entry(sp, dist, avail) ==
  [id |-> sp.id, distance_km |-> round(dist[sp.id]), capacity |-> sp.capacity,
   available_capacity |-> avail[sp.id]]

\* ------------------------------------------------------- initial state
RowCode(b) ==
  (((b.stashpoint_id * (MaxBag + 1) + b.bag_count) * (DayLen * NumDays)
      + b.dropoff_time) * (DayLen * NumDays) + b.pickup_time) * 2
    + (IF b.is_cancelled THEN 1 ELSE 0)

\* Booking tables of at most MaxBookings rows, one representative per multiset
\* of rows (the queries do not depend on the order of the rows).
Ledgers ==
  {l \in UNION {[1..n -> BookingRows] : n \in 0..MaxBookings} :
     \A i \in DOMAIN l : i + 1 \in DOMAIN l => RowCode(l[i]) <= RowCode(l[i + 1])}

NoResponse == [status |-> 0]

\* Python's None.
None == [none |-> TRUE]

\* The filter's fields as __init__ sets them before run().
InitFilter ==
  /\ filtered_stashpoint_ids = {}
  /\ filtered_stashpoints = <<>>
  /\ nearby_stashpoint_distance_mapping = EmptyDict
  /\ stashpoint_capacity_mapping = EmptyDict
  /\ stashpoint_used_capacity_mapping = EmptyDict
  /\ stashpoint_available_capacity_mapping = EmptyDict

Init ==
  /\ redis \in [stashpoints : Dicts(Ids, 1..MaxDist), stashpoints_tmp : {EmptyDict}]
  /\ catalog \in Dicts(Ids, StashpointRows)
  /\ ledger \in Ledgers
  /\ \A i \in DOMAIN ledger : ledger[i].stashpoint_id \in DOMAIN catalog
  /\ request \in Requests
  /\ pc = "start"
  /\ filtered_stashpoint_ids = {}
  /\ filtered_stashpoints = <<>>
  /\ nearby_stashpoint_distance_mapping = EmptyDict
  /\ stashpoint_capacity_mapping = EmptyDict
  /\ stashpoint_used_capacity_mapping = EmptyDict
  /\ stashpoint_available_capacity_mapping = EmptyDict
  /\ stage_ids = <<>>
  /\ exc = "none"
  /\ response = NoResponse
  /\ sync = <<>>
  /\ old_index = redis.stashpoints
  /\ args = None
  /\ validation = None

\* ------------------------------------------------------- the pipeline
find_nearby_stashpoints ==
  /\ pc = "start"
  /\ LET results == geosearch(redis.stashpoints, request.radius_km)
     IN /\ nearby_stashpoint_distance_mapping' = results
        /\ filtered_stashpoint_ids' = DOMAIN results
        /\ stage_ids' = Append(stage_ids, DOMAIN results)
  /\ pc' = "nearby"
  /\ UNCHANGED <<world, filtered_stashpoints, stashpoint_capacity_mapping,
                 stashpoint_used_capacity_mapping,
                 stashpoint_available_capacity_mapping, exc, response>>

filter_by_opening_time ==
  /\ pc = "nearby"
  /\ LET hits == CatalogQuery(catalog, filtered_stashpoint_ids,
                              request.dropoff_dt, request.pickup_dt)
     IN /\ \E order \in Orders(hits) :
             filtered_stashpoints' =
               [i \in DOMAIN order |->
                  [id |-> order[i], capacity |-> catalog[order[i]].capacity,
                   open_from |-> catalog[order[i]].open_from,
                   open_until |-> catalog[order[i]].open_until]]
        /\ stashpoint_capacity_mapping' = [id \in hits |-> catalog[id].capacity]
        /\ filtered_stashpoint_ids' = hits
        /\ stage_ids' = Append(stage_ids, hits)
  /\ pc' = "opening"
  /\ UNCHANGED <<world, nearby_stashpoint_distance_mapping,
                 stashpoint_used_capacity_mapping,
                 stashpoint_available_capacity_mapping, exc, response>>

get_stashpoint_used_capacity_mapping ==
  /\ pc = "opening"
  /\ LET used == UsedCapacityQuery(ledger, filtered_stashpoint_ids,
                                   request.dropoff_dt, request.pickup_dt)
     IN /\ stashpoint_used_capacity_mapping' = used
        /\ filtered_stashpoint_ids' = DOMAIN used
        /\ stage_ids' = Append(stage_ids, DOMAIN used)
  /\ pc' = "used"
  /\ UNCHANGED <<world, filtered_stashpoints, nearby_stashpoint_distance_mapping,
                 stashpoint_capacity_mapping,
                 stashpoint_available_capacity_mapping, exc, response>>

calculate_available_capacity ==
  /\ pc = "used"
  /\ LET avail == AvailableCapacity(stashpoint_capacity_mapping,
                                    stashpoint_used_capacity_mapping,
                                    request.bag_count)
     IN /\ stashpoint_available_capacity_mapping' = avail
        /\ filtered_stashpoint_ids' = DOMAIN avail
        /\ stage_ids' = Append(stage_ids, DOMAIN avail)
  /\ pc' = "available"
  /\ UNCHANGED <<world, filtered_stashpoints, nearby_stashpoint_distance_mapping,
                 stashpoint_capacity_mapping, stashpoint_used_capacity_mapping,
                 exc, response>>

\* The closing list comprehension of run(); __init__ then returns the object.
run_finish ==
  /\ pc = "available"
  /\ filtered_stashpoints' =
       SelectSeq(filtered_stashpoints, LAMBDA sp : sp.id \in filtered_stashpoint_ids)
  /\ pc' = "done"
  /\ UNCHANGED <<world, filtered_stashpoint_ids, nearby_stashpoint_distance_mapping,
                 stashpoint_capacity_mapping, stashpoint_used_capacity_mapping,
                 stashpoint_available_capacity_mapping, stage_ids, exc, response>>

\* The collaborator whose call is pending at each position of run().
Collaborator ==
  [start |-> "redis", nearby |-> "catalog", opening |-> "ledger"]

\* The exception is caught inside run(), which goes on to its closing step.
PropagateSwallowed == "available"

\* Where an exception raised inside run() takes control: run() and __init__
\* have no handler, so it leaves both and arrives in the caller.
Propagate == "failed"

\* The collaborator of the pending stage raises.
collaborator_fails ==
  /\ pc \in DOMAIN Collaborator
  /\ exc' = Collaborator[pc]
  /\ pc' = Propagate
  /\ UNCHANGED <<world, filtered_stashpoint_ids, filtered_stashpoints,
                 nearby_stashpoint_distance_mapping, stashpoint_capacity_mapping,
                 stashpoint_used_capacity_mapping,
                 stashpoint_available_capacity_mapping, stage_ids, response>>

\* ------------------------------------------------------- the route
\* available_stashpoints after the filter was constructed.
respond_available ==
  /\ pc = "done"
  /\ LET sorted_stashpoints ==
           SortedByDistance(filtered_stashpoints, nearby_stashpoint_distance_mapping)
     IN response' =
          [status |-> 200,
           body |-> [i \in DOMAIN sorted_stashpoints |->
                       Entry(sorted_stashpoints[i], nearby_stashpoint_distance_mapping,
                             stashpoint_available_capacity_mapping)]]
  /\ pc' = "responded"
  /\ UNCHANGED <<world, filtered_stashpoint_ids, filtered_stashpoints,
                 nearby_stashpoint_distance_mapping, stashpoint_capacity_mapping,
                 stashpoint_used_capacity_mapping,
                 stashpoint_available_capacity_mapping, stage_ids, exc>>

\* available_stashpoints when the constructor raised: the except branch.
respond_error ==
  /\ pc = "failed"
  /\ response' = [status |-> 400, error |-> "Failed to create filter"]
  /\ pc' = "responded"
  /\ UNCHANGED <<world, filtered_stashpoint_ids, filtered_stashpoints,
                 nearby_stashpoint_distance_mapping, stashpoint_capacity_mapping,
                 stashpoint_used_capacity_mapping,
                 stashpoint_available_capacity_mapping, stage_ids, exc>>

Next ==
  \/ find_nearby_stashpoints
  \/ filter_by_opening_time
  \/ get_stashpoint_used_capacity_mapping
  \/ calculate_available_capacity
  \/ run_finish
  \/ collaborator_fails
  \/ respond_available
  \/ respond_error

Spec == Init /\ [][Next]_vars

\* ------------------------------------------------------- the sync job (cron.py)
NumSyncIds == 2

SyncIds == 1..NumSyncIds

\* The columns of a Stashpoint row that sync_stashpoints_to_redis reads: the
\* location (longitude, latitude), kept as its distance from the search point.
LocatedRows == [location : 1..MaxDist]

\* What "stashpoints" would hold if the sync job wrote there directly.
tmp_key_in_place == "stashpoints"

\* tmp_key = "stashpoints_tmp"
tmp_key == "stashpoints_tmp"

\* The key the searches read.
live_key == "stashpoints"

\* A key with no members does not exist.
Exists(r, key) == r[key] # EmptyDict

\* DEL key
Del(r, key) == [r EXCEPT ![key] = EmptyDict]

\* GEOADD key lng lat member
GeoAdd(r, key, member, location) ==
  [r EXCEPT ![key] = [x \in DOMAIN @ \cup {member} |->
                        IF x = member THEN location ELSE @[x]]]

\* RENAME src dst, for an existing src: dst is replaced in one step.
Rename(r, src, dst) ==
  IF src = dst THEN r ELSE [r EXCEPT ![dst] = r[src], ![src] = EmptyDict]

\* A run of the job that has not started, with its locals.
NewRun == [pc |-> "read", stashpoints |-> <<>>, i |-> 1]

\* stashpoints = Stashpoint.query.all()
sync_read ==
  \E run \in DOMAIN sync :
    /\ sync[run].pc = "read"
    /\ \E order \in Orders(DOMAIN catalog) :
         sync' = [sync EXCEPT ![run] =
                    [pc |-> "delete",
                     stashpoints |-> [k \in DOMAIN order |->
                                        [id |-> order[k],
                                         location |-> catalog[order[k]].location]],
                     i |-> 1]]
    /\ UNCHANGED <<redis, catalog, ledger, request, old_index, args, validation, pc,
                   filtered_stashpoint_ids, filtered_stashpoints,
                   nearby_stashpoint_distance_mapping, stashpoint_capacity_mapping,
                   stashpoint_used_capacity_mapping,
                   stashpoint_available_capacity_mapping, stage_ids, exc, response>>

\* r.delete(tmp_key)
sync_delete ==
  \E run \in DOMAIN sync :
    /\ sync[run].pc = "delete"
    /\ redis' = Del(redis, tmp_key)
    /\ sync' = [sync EXCEPT ![run].pc = "loop"]
    /\ UNCHANGED <<catalog, ledger, request, old_index, args, validation, pc,
                   filtered_stashpoint_ids, filtered_stashpoints,
                   nearby_stashpoint_distance_mapping, stashpoint_capacity_mapping,
                   stashpoint_used_capacity_mapping,
                   stashpoint_available_capacity_mapping, stage_ids, exc, response>>

\* One iteration of the loop: r.geoadd(tmp_key, (sp.longitude, sp.latitude, sp.id))
sync_geoadd ==
  \E run \in DOMAIN sync :
    /\ sync[run].pc = "loop"
    /\ sync[run].i <= Len(sync[run].stashpoints)
    /\ LET sp == sync[run].stashpoints[sync[run].i]
       IN redis' = GeoAdd(redis, tmp_key, sp.id, sp.location)
    /\ sync' = [sync EXCEPT ![run].i = @ + 1]
    /\ UNCHANGED <<catalog, ledger, request, old_index, args, validation, pc,
                   filtered_stashpoint_ids, filtered_stashpoints,
                   nearby_stashpoint_distance_mapping, stashpoint_capacity_mapping,
                   stashpoint_used_capacity_mapping,
                   stashpoint_available_capacity_mapping, stage_ids, exc, response>>

\* r.rename(tmp_key, "stashpoints") after the loop; RENAME of a key that does
\* not exist is an error ("no such key"), which ends the run with an exception.
sync_rename ==
  \E run \in DOMAIN sync :
    /\ sync[run].pc = "loop"
    /\ sync[run].i > Len(sync[run].stashpoints)
    /\ IF Exists(redis, tmp_key)
       THEN /\ redis' = Rename(redis, tmp_key, live_key)
            /\ sync' = [sync EXCEPT ![run].pc = "done"]
       ELSE /\ redis' = redis
            /\ sync' = [sync EXCEPT ![run].pc = "failed"]
    /\ UNCHANGED <<catalog, ledger, request, old_index, args, validation, pc,
                   filtered_stashpoint_ids, filtered_stashpoints,
                   nearby_stashpoint_distance_mapping, stashpoint_capacity_mapping,
                   stashpoint_used_capacity_mapping,
                   stashpoint_available_capacity_mapping, stage_ids, exc, response>>

\* The next search request: a new StashpointFilter with the fields of __init__.
new_request ==
  /\ pc = "nearby"
  /\ pc' = "start"
  /\ filtered_stashpoint_ids' = {}
  /\ nearby_stashpoint_distance_mapping' = EmptyDict
  /\ stage_ids' = <<>>
  /\ UNCHANGED <<world, filtered_stashpoints, stashpoint_capacity_mapping,
                 stashpoint_used_capacity_mapping,
                 stashpoint_available_capacity_mapping, exc, response>>

\* The state the searches and the runs of the job start from: any index, any
\* leftover under the shadow key, any catalog.
InitSync(runs) ==
  /\ redis \in [stashpoints : Dicts(SyncIds, 1..MaxDist),
                stashpoints_tmp : Dicts(SyncIds, 1..MaxDist)]
  /\ catalog \in Dicts(SyncIds, LocatedRows)
  /\ ledger = <<>>
  /\ request \in {r \in Requests : r.dropoff_dt = 0 /\ r.pickup_dt = 1 /\ r.bag_count = 1}
  /\ pc = "start"
  /\ InitFilter
  /\ stage_ids = <<>>
  /\ exc = "none"
  /\ response = NoResponse
  /\ sync = [run \in runs |-> NewRun]
  /\ old_index = redis.stashpoints
  /\ args = None
  /\ validation = None

InitSyncOne == InitSync({1})

InitSyncTwo == InitSync({1, 2})

SyncNext ==
  \/ sync_read
  \/ sync_delete
  \/ sync_geoadd
  \/ sync_rename
  \/ find_nearby_stashpoints
  \/ new_request

\* Searches and one run of the sync job.
SyncSpec == InitSyncOne /\ [][SyncNext]_vars

\* Searches and two runs of the sync job that can overlap.
SyncSpecTwo == InitSyncTwo /\ [][SyncNext]_vars

\* ------------------------------------------------------- validate_params
\* Latitude must be between -LatMax and LatMax, longitude between -LngMax and
\* LngMax.
LatMax == 90
LngMax == 180

\* A Python float: a number or NaN. Every comparison with NaN is false.
Float(n) == [nan |-> FALSE, v |-> n]
NaN == [nan |-> TRUE, v |-> 0]
FloatLe(a, b) == ~a.nan /\ ~b.nan /\ a.v <= b.v

\* A query parameter as it arrives: absent, text that does not parse, or text
\* that parses to a value.
Missing == [kind |-> "missing"]
Garbage == [kind |-> "garbage"]
Text(value) == [kind |-> "ok", value |-> value]

\* A datetime that fromisoformat returns: naive, or aware when the text
\* carries "Z" or an offset.
DateTimes == [t : Times, aware : BOOLEAN]

\* The query strings the model sends.
ArgSets ==
  [lat : {Missing, Garbage, Text(NaN)}
           \cup {Text(Float(n)) : n \in {-LatMax - 1, -LatMax, 0, LatMax, LatMax + 1}},
   lng : {Missing, Garbage, Text(NaN)}
           \cup {Text(Float(n)) : n \in {-LngMax - 1, -LngMax, 0, LngMax, LngMax + 1}},
   dropoff : {Missing, Garbage} \cup {Text(dt) : dt \in DateTimes},
   pickup : {Missing, Garbage} \cup {Text(dt) : dt \in DateTimes},
   bag_count : {Missing, Garbage} \cup {Text(n) : n \in -1..MaxBag},
   radius_km : {Missing, Garbage, Text(NaN)}
                 \cup {Text(Float(n)) : n \in -1..MaxRadius}]

\* DEFAULT_RADIUS_KM: positive, a request without radius_km validates.
DEFAULT_RADIUS_KM == Float(MaxRadius)

\* (jsonify({"error": ...}), 400)
Error400(message) == [status |-> 400, error |-> message]

\* pickup_dt <= dropoff_dt raises TypeError for a naive and an aware datetime.
Comparable(a, b) == a.aware = b.aware

\* validate_params: what it returns, or that it raises.
validate_params(a) ==
  LET radius == IF a.radius_km.kind = "missing" THEN Text(DEFAULT_RADIUS_KM)
                ELSE a.radius_km
      returns(params, error) ==
        [outcome |-> "return", validated_params |-> params, error_response |-> error]
  IN IF a.lat.kind # "ok" \/ a.lng.kind # "ok" \/ a.bag_count.kind # "ok"
        \/ radius.kind # "ok"
     THEN returns(None, Error400("Invalid or missing parameters"))
     ELSE IF a.dropoff.kind # "ok" \/ a.pickup.kind # "ok"
     THEN returns(None, Error400("Invalid datetime format"))
     ELSE IF ~Comparable(a.pickup.value, a.dropoff.value)
     THEN [outcome |-> "raise", validated_params |-> None, error_response |-> None]
     ELSE IF a.pickup.value.t <= a.dropoff.value.t
     THEN returns(None, Error400("Pickup time must be after dropoff time"))
     ELSE IF ~(FloatLe(Float(-LatMax), a.lat.value) /\ FloatLe(a.lat.value, Float(LatMax)))
     THEN returns(None, Error400("Latitude must be between -90 and 90"))
     ELSE IF ~(FloatLe(Float(-LngMax), a.lng.value) /\ FloatLe(a.lng.value, Float(LngMax)))
     THEN returns(None, Error400("Longitude must be between -180 and 180"))
     ELSE IF a.bag_count.value <= 0
     THEN returns(None, Error400("Bag count must be positive"))
     ELSE IF FloatLe(radius.value, Float(0))
     THEN returns(None, Error400("Radius must be positive"))
     ELSE returns([lat |-> a.lat.value, lng |-> a.lng.value,
                   dropoff_dt |-> a.dropoff.value, pickup_dt |-> a.pickup.value,
                   bag_count |-> a.bag_count.value, radius_km |-> radius.value],
                  None)

\* available_stashpoints up to the call of the constructor: an error response
\* is returned as it is, an exception of validate_params is not caught (the
\* framework answers 500), validated parameters go to StashpointFilter.
available_stashpoints_validate ==
  /\ pc = "received"
  /\ LET result == validate_params(args)
     IN IF result.outcome = "raise"
        THEN /\ validation' = None
             /\ response' = [status |-> 500]
             /\ request' = request
             /\ pc' = "crashed"
        ELSE /\ validation' = [validated_params |-> result.validated_params,
                               error_response |-> result.error_response]
             /\ IF result.error_response # None
                THEN /\ response' = result.error_response
                     /\ request' = request
                     /\ pc' = "responded"
                ELSE /\ response' = response
                     /\ request' = result.validated_params
                     /\ pc' = "start"
  /\ UNCHANGED <<redis, catalog, ledger, sync, old_index, args,
                 filtered_stashpoint_ids, filtered_stashpoints,
                 nearby_stashpoint_distance_mapping, stashpoint_capacity_mapping,
                 stashpoint_used_capacity_mapping,
                 stashpoint_available_capacity_mapping, stage_ids, exc>>

\* A request arrives with any of the query strings.
InitValidate ==
  /\ args \in ArgSets
  /\ validation = None
  /\ request = None
  /\ pc = "received"
  /\ redis = [stashpoints |-> EmptyDict, stashpoints_tmp |-> EmptyDict]
  /\ catalog = EmptyDict
  /\ ledger = <<>>
  /\ InitFilter
  /\ stage_ids = <<>>
  /\ exc = "none"
  /\ response = NoResponse
  /\ sync = <<>>
  /\ old_index = EmptyDict

ValidateNext == available_stashpoints_validate

\* The route from the arrival of a request to the call of the constructor.
ValidateSpec == InitValidate /\ [][ValidateNext]_vars

\* ------------------------------------------------------- several stashpoints
\* Requests over a catalogue of NumWideIds stashpoints at distances up to
\* WideMaxDist, with a radius up to WideMaxRadius.
NumWideIds == 2
WideMaxDist == 3
WideMaxRadius == 2

WideIds == 1..NumWideIds

\* Stashpoints that open at midnight.
WideStashpointRows == [capacity : 1..MaxCap, open_from : {0}, open_until : TimesOfDay]

\* Bookings that are not cancelled.
WideBookingRows ==
  {b \in [stashpoint_id : WideIds, bag_count : 1..MaxBag, dropoff_time : 0..1,
          pickup_time : 1..2, is_cancelled : {FALSE}] :
     b.dropoff_time < b.pickup_time}

\* A request for the window from 0 to 1 arrives; the ledger has at most one row.
InitWide ==
  /\ redis \in [stashpoints : Dicts(WideIds, 1..WideMaxDist), stashpoints_tmp : {EmptyDict}]
  /\ catalog \in Dicts(WideIds, WideStashpointRows)
  /\ ledger \in {<<>>} \cup {<<b>> : b \in WideBookingRows}
  /\ \A i \in DOMAIN ledger : ledger[i].stashpoint_id \in DOMAIN catalog
  /\ request \in [radius_km : 1..WideMaxRadius, dropoff_dt : {0}, pickup_dt : {1},
                  bag_count : 1..MaxBag]
  /\ pc = "start"
  /\ InitFilter
  /\ stage_ids = <<>>
  /\ exc = "none"
  /\ response = NoResponse
  /\ sync = <<>>
  /\ old_index = redis.stashpoints
  /\ args = None
  /\ validation = None

WideSpec == InitWide /\ [][Next]_vars

\* ------------------------------------------------------- vocabulary of the claims
\* The stages of the pipeline, by their position in stage_ids.
Proximity == 1
OpeningHours == 2
UsedCapacity == 3
Capacity == 4

StageDone(k) == Len(stage_ids) >= k

\* The ids of the records held in filtered_stashpoints.
ResultIds == {filtered_stashpoints[i].id : i \in DOMAIN filtered_stashpoints}

\* The geosearch returns the id: it is indexed within radius_km of the search point.
WithinRadius(id) ==
  /\ id \in DOMAIN redis.stashpoints
  /\ redis.stashpoints[id] <= request.radius_km

\* A stashpoint is open at a time of day; open_from > open_until wraps midnight.
OpenAt(row, tod) ==
  IF row.open_from <= row.open_until
  THEN row.open_from <= tod /\ tod <= row.open_until
  ELSE tod >= row.open_from \/ tod <= row.open_until

\* The stashpoint is open at every instant of the requested window.
OpenWholeWindow(row) ==
  \A t \in request.dropoff_dt..request.pickup_dt : OpenAt(row, t % DayLen)

\* The time-of-day comparison: open_from is not after the time of day of the
\* dropoff and open_until is not before the time of day of the pickup.
OpenAtEnds(row) ==
  /\ row.open_from <= request.dropoff_dt % DayLen
  /\ row.open_until >= request.pickup_dt % DayLen

\* The booking's interval intersects the requested window.
Intersects(b) ==
  b.dropoff_time < request.pickup_dt /\ b.pickup_time > request.dropoff_dt

RECURSIVE BagsOf(_)
\* The summed bag_count of a sequence of bookings.
BagsOf(rows) ==
  IF rows = <<>> THEN 0 ELSE rows[1].bag_count + BagsOf(Tail(rows))

\* The summed bag_count of the rows of the ledger that satisfy P.
BagsWhere(P(_)) == BagsOf(SelectSeq(ledger, P))

\* The bag demand on a stashpoint over the requested window.
Demand(id) ==
  BagsWhere(LAMBDA b : b.stashpoint_id = id /\ ~b.is_cancelled /\ Intersects(b))

\* used_capacity.get(id, 0)
UsedOrZero(id) ==
  IF id \in DOMAIN stashpoint_used_capacity_mapping
  THEN stashpoint_used_capacity_mapping[id] ELSE 0

\* The ledger without its cancelled rows.
ActiveLedger == SelectSeq(ledger, LAMBDA b : ~b.is_cancelled)

\* ------------------------------------------------------- C1
\* C1 as stated: after the pipeline a stashpoint is in the final result if and
\* only if the geosearch returned it, it is open during the whole requested
\* window, and its capacity minus the bag demand of its non-cancelled
\* overlapping bookings is at least the requested bag_count.
C1_AsStated ==
  pc = "done" =>
    ResultIds = {id \in DOMAIN catalog :
                   /\ WithinRadius(id)
                   /\ OpenWholeWindow(catalog[id])
                   /\ catalog[id].capacity - Demand(id) >= request.bag_count}

\* C1 amended: after the pipeline a stashpoint is in the final result if and
\* only if the geosearch returned it, open_from <= dropoff_dt.time() and
\* open_until >= pickup_dt.time(), and its capacity minus the bag demand of its
\* non-cancelled overlapping bookings is at least the requested bag_count.
C1_Result ==
  pc = "done" =>
    ResultIds = {id \in DOMAIN catalog :
                   /\ WithinRadius(id)
                   /\ OpenAtEnds(catalog[id])
                   /\ catalog[id].capacity - Demand(id) >= request.bag_count}

\* A finished run that kept a stashpoint with demand, and whose window the
\* stashpoint does not cover although the comparison of the ends passes.
C1_Witness ==
  /\ pc = "done"
  /\ \E id \in ResultIds :
       /\ Demand(id) > 0
       /\ ~OpenWholeWindow(catalog[id])

\* ------------------------------------------------------- C2
\* C2: once calculate_available_capacity has run, every id of the available
\* capacity mapping has available >= bag_count and available = capacity -
\* used (used is 0 for an id the used-capacity mapping lacks), and every id of
\* the capacity mapping for which that difference is >= bag_count is in it.
C2_AvailableCapacity ==
  StageDone(Capacity) =>
    /\ \A id \in DOMAIN stashpoint_available_capacity_mapping :
         /\ id \in DOMAIN stashpoint_capacity_mapping
         /\ stashpoint_available_capacity_mapping[id] >= request.bag_count
         /\ stashpoint_available_capacity_mapping[id] =
              stashpoint_capacity_mapping[id] - UsedOrZero(id)
    /\ \A id \in DOMAIN stashpoint_capacity_mapping :
         stashpoint_capacity_mapping[id] - UsedOrZero(id) >= request.bag_count
           => id \in DOMAIN stashpoint_available_capacity_mapping

\* The capacity stage kept a stashpoint with used capacity whose available
\* capacity is exactly the requested bag_count.
C2_Witness ==
  /\ StageDone(Capacity)
  /\ \E id \in DOMAIN stashpoint_available_capacity_mapping :
       /\ UsedOrZero(id) > 0
       /\ stashpoint_available_capacity_mapping[id] = request.bag_count

\* ------------------------------------------------------- C3
\* C3: a stashpoint that survived the proximity and opening-hours stages, has
\* no overlapping non-cancelled booking and capacity >= bag_count is dropped
\* from the candidate ids by the used-capacity stage, and is nevertheless in
\* the final result with available_capacity equal to its capacity.
C3_ZeroBookingsEligible ==
  pc = "done" =>
    \A id \in stage_ids[OpeningHours] :
      (Demand(id) = 0 /\ catalog[id].capacity >= request.bag_count) =>
        /\ id \notin stage_ids[UsedCapacity]
        /\ id \in ResultIds
        /\ id \in filtered_stashpoint_ids
        /\ stashpoint_available_capacity_mapping[id] = catalog[id].capacity

\* A finished run with such a stashpoint, which also has bookings outside the
\* window or cancelled.
C3_Witness ==
  /\ pc = "done"
  /\ \E id \in stage_ids[OpeningHours] :
       /\ Demand(id) = 0
       /\ catalog[id].capacity >= request.bag_count
       /\ \E i \in DOMAIN ledger : ledger[i].stashpoint_id = id

\* ------------------------------------------------------- C4
\* C4: cancelled bookings never contribute: the used-capacity mapping is what
\* the ledger without its cancelled rows gives, its values are the bag demand
\* of the non-cancelled overlapping bookings, and so is the available capacity.
C4_CancelledIgnored ==
  /\ StageDone(UsedCapacity) =>
       /\ stashpoint_used_capacity_mapping =
            UsedCapacityQuery(ActiveLedger, stage_ids[OpeningHours],
                              request.dropoff_dt, request.pickup_dt)
       /\ \A id \in stage_ids[OpeningHours] : UsedOrZero(id) = Demand(id)
  /\ StageDone(Capacity) =>
       \A id \in DOMAIN stashpoint_available_capacity_mapping :
         stashpoint_available_capacity_mapping[id] = catalog[id].capacity - Demand(id)

\* The example of the claim, scaled: one active and one larger cancelled
\* booking, both overlapping; used is the active booking's bag_count.
C4_Witness ==
  /\ StageDone(Capacity)
  /\ \E id \in DOMAIN stashpoint_available_capacity_mapping :
     \E i, j \in DOMAIN ledger :
       /\ ledger[i].stashpoint_id = id /\ ledger[j].stashpoint_id = id
       /\ ~ledger[i].is_cancelled /\ ledger[j].is_cancelled
       /\ Intersects(ledger[i]) /\ Intersects(ledger[j])
       /\ ledger[j].bag_count > ledger[i].bag_count
       /\ id \in DOMAIN stashpoint_used_capacity_mapping
       /\ stashpoint_used_capacity_mapping[id] = ledger[i].bag_count
       /\ stashpoint_available_capacity_mapping[id] =
            catalog[id].capacity - ledger[i].bag_count

\* ------------------------------------------------------- C5
\* A booking that ends exactly when the requested window begins.
EndsAtDropoff(b) ==
  b.pickup_time = request.dropoff_dt /\ b.dropoff_time < request.dropoff_dt

\* A booking strictly inside the requested window.
StrictlyNested(b) ==
  b.dropoff_time > request.dropoff_dt /\ b.pickup_time < request.pickup_dt

\* C5: for every candidate of the used-capacity stage, used capacity counts no
\* non-cancelled booking with pickup_time = dropoff_dt and dropoff_time <
\* dropoff_dt, and counts every non-cancelled booking strictly nested inside
\* the requested window.
C5_OverlapBoundary ==
  StageDone(UsedCapacity) =>
    \A id \in stage_ids[OpeningHours] :
      /\ UsedOrZero(id) <=
           BagsWhere(LAMBDA b : b.stashpoint_id = id /\ ~b.is_cancelled
                                /\ ~EndsAtDropoff(b))
      /\ UsedOrZero(id) >=
           BagsWhere(LAMBDA b : b.stashpoint_id = id /\ ~b.is_cancelled
                                /\ StrictlyNested(b))
      /\ (\E i \in DOMAIN ledger :
            /\ ledger[i].stashpoint_id = id /\ ~ledger[i].is_cancelled
            /\ StrictlyNested(ledger[i]))
           => id \in DOMAIN stashpoint_used_capacity_mapping

\* A candidate with a booking that ends at the dropoff and a counted one.
C5_Witness ==
  /\ StageDone(UsedCapacity)
  /\ \E id \in stage_ids[OpeningHours] : \E i, j \in DOMAIN ledger :
       /\ ledger[i].stashpoint_id = id /\ ~ledger[i].is_cancelled
       /\ EndsAtDropoff(ledger[i])
       /\ ledger[j].stashpoint_id = id /\ ~ledger[j].is_cancelled
       /\ id \in DOMAIN stashpoint_used_capacity_mapping
       /\ stashpoint_used_capacity_mapping[id] = ledger[j].bag_count

\* ------------------------------------------------------- C6
\* C6: the opening-hours stage keeps exactly the catalogued candidates of the
\* proximity stage with open_from <= dropoff_dt.time() and open_until >=
\* pickup_dt.time(); one with open_from = dropoff_dt.time() and open_until =
\* pickup_dt.time() is kept.
C6_OpeningHoursInclusive ==
  StageDone(OpeningHours) =>
    /\ stage_ids[OpeningHours] =
         {id \in stage_ids[Proximity] \cap DOMAIN catalog : OpenAtEnds(catalog[id])}
    /\ \A id \in stage_ids[Proximity] \cap DOMAIN catalog :
         (/\ catalog[id].open_from = request.dropoff_dt % DayLen
          /\ catalog[id].open_until = request.pickup_dt % DayLen)
           => id \in stage_ids[OpeningHours]

\* The stage kept a stashpoint that opens at the dropoff's time of day and
\* closes at the pickup's.
C6_Witness ==
  /\ StageDone(OpeningHours)
  /\ \E id \in stage_ids[OpeningHours] :
       /\ catalog[id].open_from = request.dropoff_dt % DayLen
       /\ catalog[id].open_until = request.pickup_dt % DayLen
       /\ catalog[id].open_from < catalog[id].open_until

\* ------------------------------------------------------- C7
\* C7 as stated: after each stage the candidate id set is a subset of the
\* candidate id set after the previous stage.
C7_AsStated ==
  \A k \in 2..Len(stage_ids) : stage_ids[k] \subseteq stage_ids[k - 1]

\* C7 amended: opening-hours is a subset of proximity, used-capacity a subset
\* of opening-hours, and capacity a subset of opening-hours (the capacity stage
\* can bring back ids that the used-capacity stage dropped).
C7_Narrowing ==
  /\ StageDone(OpeningHours) => stage_ids[OpeningHours] \subseteq stage_ids[Proximity]
  /\ StageDone(UsedCapacity) => stage_ids[UsedCapacity] \subseteq stage_ids[OpeningHours]
  /\ StageDone(Capacity) => stage_ids[Capacity] \subseteq stage_ids[OpeningHours]

\* All four stages ran, the used-capacity stage dropped a candidate that has a
\* booking outside the window, and the capacity stage kept a candidate.
C7_Witness ==
  /\ StageDone(Capacity)
  /\ stage_ids[UsedCapacity] # stage_ids[OpeningHours]
  /\ stage_ids[Capacity] # {}
  /\ \E i \in DOMAIN ledger :
       ledger[i].stashpoint_id \in stage_ids[OpeningHours] /\ ~ledger[i].is_cancelled

\* ------------------------------------------------------- C8
\* C8: the final candidate id set, the keys of the available-capacity mapping
\* and the ids of filtered_stashpoints are subsets of the proximity stage's ids.
C8_FinalWithinProximity ==
  /\ StageDone(Capacity) =>
       /\ filtered_stashpoint_ids \subseteq stage_ids[Proximity]
       /\ DOMAIN stashpoint_available_capacity_mapping \subseteq stage_ids[Proximity]
  /\ StageDone(OpeningHours) => ResultIds \subseteq stage_ids[Proximity]

\* A finished run whose proximity stage left out a catalogued, open stashpoint
\* with enough capacity.
C8_Witness ==
  /\ pc = "done"
  /\ \E id \in DOMAIN catalog :
       /\ id \notin stage_ids[Proximity]
       /\ OpenAtEnds(catalog[id])
       /\ catalog[id].capacity - Demand(id) >= request.bag_count

\* ------------------------------------------------------- C9
\* The number of stages completed before the call to a collaborator.
StagesBefore == [redis |-> 0, catalog |-> 1, ledger |-> 2]

\* C9: when a collaborator raises, no later stage runs (the stages completed
\* stay those before the failing call and the later mappings stay empty), the
\* constructor does not return, and the route answers with an error and no list.
C9_FailurePropagates ==
  exc # "none" =>
    /\ pc \in {"failed", "responded"}
    /\ Len(stage_ids) = StagesBefore[exc]
    /\ stashpoint_available_capacity_mapping = EmptyDict
    /\ exc \in {"redis", "catalog"} => stashpoint_used_capacity_mapping = EmptyDict
    /\ exc = "redis" => stashpoint_capacity_mapping = EmptyDict
    /\ response.status # 200
    /\ pc = "responded" => response.status = 400 /\ "body" \notin DOMAIN response

\* The ledger query raised after two stages had filled their mappings, and the
\* route has answered.
C9_Witness ==
  /\ exc = "ledger"
  /\ pc = "responded"
  /\ stashpoint_capacity_mapping # EmptyDict

\* ------------------------------------------------------- C10
\* C10: if the proximity search returns no points, the distance mapping, the
\* candidate ids, filtered_stashpoints and the capacity, used-capacity and
\* available-capacity mappings are empty from then on.
C10_EmptyProximity ==
  (StageDone(Proximity) /\ stage_ids[Proximity] = {}) =>
    /\ nearby_stashpoint_distance_mapping = EmptyDict
    /\ filtered_stashpoint_ids = {}
    /\ filtered_stashpoints = <<>>
    /\ stashpoint_capacity_mapping = EmptyDict
    /\ stashpoint_used_capacity_mapping = EmptyDict
    /\ stashpoint_available_capacity_mapping = EmptyDict
    /\ pc = "responded" /\ exc = "none" => response.body = <<>>

\* A finished run with nothing nearby, although the catalog has an open
\* stashpoint with a non-cancelled booking overlapping the window.
C10_Witness ==
  /\ pc = "done"
  /\ stage_ids[Proximity] = {}
  /\ \E i \in DOMAIN ledger :
       /\ ~ledger[i].is_cancelled /\ Intersects(ledger[i])
       /\ ledger[i].stashpoint_id \in DOMAIN catalog
       /\ OpenAtEnds(catalog[ledger[i].stashpoint_id])

\* ------------------------------------------------------- C11
\* The index a run installs when it has read the whole catalog.
NewIndex == [id \in DOMAIN catalog |-> catalog[id].location]

\* The index made of the rows a run read.
IndexOf(rows) ==
  [id \in {rows[k].id : k \in DOMAIN rows} |->
     rows[CHOOSE k \in DOMAIN rows : rows[k].id = id].location]

\* C11: at every step of one run of the sync job the key "stashpoints" holds
\* the complete old index or the complete new index, and so does what a
\* search at that moment gets from the geosearch.
C11_AtomicRefresh ==
  /\ redis[live_key] \in {old_index, NewIndex}
  /\ pc = "nearby" =>
       nearby_stashpoint_distance_mapping \in
         {geosearch(old_index, request.radius_km),
          geosearch(NewIndex, request.radius_km)}

\* A search result held while the run has added one of two points to the
\* shadow key, the old and the new index giving different results.
C11_Witness ==
  /\ pc = "nearby"
  /\ sync[1].pc = "loop"
  /\ Len(sync[1].stashpoints) = 2
  /\ sync[1].i = 2
  /\ Cardinality(DOMAIN redis[tmp_key]) = 1
  /\ nearby_stashpoint_distance_mapping # EmptyDict
  /\ geosearch(old_index, request.radius_km) # geosearch(NewIndex, request.radius_km)

\* ------------------------------------------------------- C16
\* C16 as stated, for a catalog that is not empty: with two runs of the sync
\* job, the key "stashpoints" always holds the old index or a complete snapshot
\* read by one of the runs, and neither run fails.
C16_AsStated ==
  DOMAIN catalog # {} =>
    /\ \A run \in DOMAIN sync : sync[run].pc # "failed"
    /\ redis[live_key] \in
         {old_index} \cup
           {IndexOf(sync[run].stashpoints) :
              run \in {x \in DOMAIN sync : sync[x].pc # "read"}}

\* ------------------------------------------------------- C17
\* C17 as stated: a run of the sync job ends by completing, and the key
\* "stashpoints" then holds exactly the stashpoints the run read; for the empty
\* catalog it holds nothing.
C17_AsStated ==
  \A run \in DOMAIN sync :
    sync[run].pc \in {"done", "failed"} =>
      /\ sync[run].pc = "done"
      /\ redis[live_key] = IndexOf(sync[run].stashpoints)

\* ------------------------------------------------------- C12
\* The preconditions of the filter, on parsed values.
Preconditions(p) ==
  /\ p.pickup_dt.t > p.dropoff_dt.t
  /\ FloatLe(Float(-LatMax), p.lat) /\ FloatLe(p.lat, Float(LatMax))
  /\ FloatLe(Float(-LngMax), p.lng) /\ FloatLe(p.lng, Float(LngMax))
  /\ p.bag_count > 0
  /\ ~p.radius_km.nan /\ p.radius_km.v > 0

\* Every parameter of the request parsed.
Parsed ==
  /\ \A k \in {"lat", "lng", "dropoff", "pickup", "bag_count"} : args[k].kind = "ok"
  /\ args.radius_km.kind \in {"ok", "missing"}

\* The parsed values of the request.
ParsedValues ==
  [lat |-> args.lat.value, lng |-> args.lng.value,
   dropoff_dt |-> args.dropoff.value, pickup_dt |-> args.pickup.value,
   bag_count |-> args.bag_count.value,
   radius_km |-> IF args.radius_km.kind = "missing" THEN DEFAULT_RADIUS_KM
                 ELSE args.radius_km.value]

\* C12 as stated: validate_params returns (params, None) or (None, 400 error),
\* it returns params only when all preconditions hold, the route calls the
\* constructor only then, and a request that parses and violates a
\* precondition gets a 400 error and no filter run.
C12_AsStated ==
  pc # "received" =>
    /\ pc # "crashed"
    /\ validation # None
    /\ (validation.validated_params = None) # (validation.error_response = None)
    /\ validation.error_response # None => validation.error_response.status = 400
    /\ validation.validated_params # None => Preconditions(validation.validated_params)
    /\ pc = "start" => Preconditions(request)
    /\ (Parsed /\ ~Preconditions(ParsedValues)) =>
         pc = "responded" /\ response.status = 400

\* ------------------------------------------------------- C13
\* The opening window wraps midnight.
WrapsMidnight(row) == row.open_from > row.open_until

\* The day of a timestamp.
DayOf(dt) == dt \div DayLen

\* The requested window crosses midnight: the pickup is on a later day.
CrossesMidnight == DayOf(request.pickup_dt) > DayOf(request.dropoff_dt)

\* C13 as stated: the opening-hours stage never keeps a stashpoint whose
\* opening window wraps midnight when the requested window crosses midnight.
C13_AsStated ==
  StageDone(OpeningHours) =>
    \A id \in stage_ids[Proximity] \cap DOMAIN catalog :
      (WrapsMidnight(catalog[id]) /\ CrossesMidnight)
        => id \notin stage_ids[OpeningHours]

\* C13 amended: the opening-hours stage never keeps a stashpoint whose opening
\* window wraps midnight when the pickup's time of day is not earlier than the
\* dropoff's; it keeps one only for a window that crosses midnight with
\* open_from <= dropoff_dt.time() and pickup_dt.time() <= open_until.
C13_WrapAround ==
  StageDone(OpeningHours) =>
    \A id \in stage_ids[Proximity] \cap DOMAIN catalog :
      WrapsMidnight(catalog[id]) =>
        /\ TimeOf(request.pickup_dt) >= TimeOf(request.dropoff_dt)
             => id \notin stage_ids[OpeningHours]
        /\ id \in stage_ids[OpeningHours] =>
             /\ CrossesMidnight
             /\ TimeOf(request.pickup_dt) <= catalog[id].open_until
             /\ catalog[id].open_until < catalog[id].open_from
             /\ catalog[id].open_from <= TimeOf(request.dropoff_dt)

\* The stage dropped a stashpoint that wraps midnight for a window that crosses
\* midnight and begins and ends at a time of day at which it is open.
C13_Witness ==
  /\ StageDone(OpeningHours)
  /\ CrossesMidnight
  /\ TimeOf(request.pickup_dt) >= TimeOf(request.dropoff_dt)
  /\ \E id \in (stage_ids[Proximity] \cap DOMAIN catalog) \ stage_ids[OpeningHours] :
       /\ WrapsMidnight(catalog[id])
       /\ OpenAt(catalog[id], TimeOf(request.dropoff_dt))
       /\ OpenAt(catalog[id], TimeOf(request.pickup_dt))

\* ------------------------------------------------------- C15
\* A booking that starts exactly when the requested window ends.
StartsAtPickup(b) ==
  b.dropoff_time = request.pickup_dt /\ b.pickup_time > request.pickup_dt

\* C15: for every booking of the ledger (dropoff_time < pickup_time) and the
\* request (dropoff_dt < pickup_dt) the three-clause overlap condition holds
\* exactly when booking.dropoff_time < pickup_dt and booking.pickup_time >
\* dropoff_dt; the used-capacity stage selects exactly the non-cancelled rows
\* of the candidates for which that holds, so no booking that starts at
\* pickup_dt is counted.
C15_OverlapIsIntersection ==
  /\ \A i \in DOMAIN ledger :
       ledger[i].dropoff_time < ledger[i].pickup_time =>
         (Overlaps(ledger[i], request.dropoff_dt, request.pickup_dt)
            <=> Intersects(ledger[i]))
  /\ StageDone(UsedCapacity) =>
       /\ SelectedRows(ledger, stage_ids[OpeningHours],
                       request.dropoff_dt, request.pickup_dt)
            = {i \in DOMAIN ledger : /\ ledger[i].stashpoint_id \in stage_ids[OpeningHours]
                                     /\ ~ledger[i].is_cancelled
                                     /\ Intersects(ledger[i])}
       /\ \A id \in stage_ids[OpeningHours] :
            UsedOrZero(id) <=
              BagsWhere(LAMBDA b : b.stashpoint_id = id /\ ~b.is_cancelled
                                   /\ ~StartsAtPickup(b) /\ ~EndsAtDropoff(b))

\* A candidate with a booking that starts at the pickup, one that ends at the
\* dropoff, and neither counted.
C15_Witness ==
  /\ StageDone(UsedCapacity)
  /\ \E id \in stage_ids[OpeningHours] : \E i, j \in DOMAIN ledger :
       /\ ledger[i].stashpoint_id = id /\ ~ledger[i].is_cancelled
       /\ StartsAtPickup(ledger[i])
       /\ ledger[j].stashpoint_id = id /\ ~ledger[j].is_cancelled
       /\ EndsAtDropoff(ledger[j])
       /\ id \notin DOMAIN stashpoint_used_capacity_mapping

\* ------------------------------------------------------- C14
\* run() completed: the constructor returned the filter to the route.
RunCompleted == pc = "done" \/ (pc = "responded" /\ response.status = 200)

\* C14: after run() the ids of the records of filtered_stashpoints are exactly
\* the keys of the available capacity mapping and each is a key of the
\* distance mapping; the response has one entry per record, with the record's
\* rounded distance and available capacity, in order of non-decreasing
\* distance.
C14_ResultKeysAndOrder ==
  /\ RunCompleted =>
       /\ ResultIds = DOMAIN stashpoint_available_capacity_mapping
       /\ Len(filtered_stashpoints) = Cardinality(ResultIds)
       /\ ResultIds \subseteq DOMAIN nearby_stashpoint_distance_mapping
  /\ (pc = "responded" /\ response.status = 200) =>
       /\ Len(response.body) = Len(filtered_stashpoints)
       /\ {response.body[i].id : i \in DOMAIN response.body} = ResultIds
       /\ \A i \in DOMAIN response.body :
            /\ response.body[i].distance_km =
                 round(nearby_stashpoint_distance_mapping[response.body[i].id])
            /\ response.body[i].available_capacity =
                 stashpoint_available_capacity_mapping[response.body[i].id]
       /\ \A i, j \in DOMAIN response.body :
            i < j =>
              /\ nearby_stashpoint_distance_mapping[response.body[i].id]
                   <= nearby_stashpoint_distance_mapping[response.body[j].id]
              /\ response.body[i].distance_km <= response.body[j].distance_km

\* A response of two stashpoints that the filter held in the other order, the
\* farther one first.
C14_Witness ==
  /\ pc = "responded" /\ response.status = 200
  /\ Len(response.body) = 2
  /\ response.body[1].distance_km < response.body[2].distance_km
  /\ filtered_stashpoints[1].id = response.body[2].id
  /\ filtered_stashpoints[2].id = response.body[1].id

====
